---- MODULE Spec2Model ----
(***************************************************************************)
(* Regulatory rule extraction pipeline (app/graph, app/services).          *)
(*                                                                         *)
(* One request is one pass of the LangGraph workflow                       *)
(*   START -> scrape -> extract_rules -> (compare | format) -> format -> END *)
(* over a PipelineState dictionary.  Every node returns a partial update   *)
(* and the graph engine overwrites the keys the update names (PipelineState *)
(* declares no reducers).  The three collaborators (Firecrawl agent, Gemini *)
(* extraction, Gemini comparison) are the environment: each call draws its *)
(* reply from a small set.                                                 *)
(***************************************************************************)
EXTENDS Integers, Sequences, FiniteSets, TLC

VARIABLES
    pc,                 \* next graph node to run: "scrape", "extract_rules",
                        \* "compare", "format", "END"; "done" once the
                        \* response is built, "answered" once the
                        \* endpoint has answered
    request,            \* arguments of run_extraction_workflow
    state,              \* the PipelineState dictionary
    responses,          \* the ExtractionResponses returned, in order
    firecrawl_service,  \* module-level handle _firecrawl_service
    gemini_service,     \* module-level handle _gemini_service
    agent_calls,        \* history: outcome of each Firecrawl agent call
    extract_calls,      \* history: Gemini extraction calls (raw rule, reply)
    compare_calls,      \* history: Gemini comparison calls
    visited,            \* history: the nodes run so far, in order, each with
                        \* the error its update recorded
    answers,            \* the HTTP answers of POST /api/v1/extract-rules
    other               \* a second request in flight on the same event loop
                        \* (its pc, request, state, responses, answers and
                        \* histories), or None

vars == <<pc, request, state, responses, firecrawl_service, gemini_service,
          agent_calls, extract_calls, compare_calls, visited, answers, other>>

-----------------------------------------------------------------------------
(* Bounds of the model *)

MaxPrior == 2       \* longest prior rule set of a request
MaxRaw == 2         \* most records in one Firecrawl agent reply
MaxCandidates == 2  \* most candidate rules one EXTRACT stage yields

-----------------------------------------------------------------------------
(* Values *)

None == "None"

\* ChangeStatus
ChangeStatus_NEW == "new"
ChangeStatus_UPDATED == "updated"
ChangeStatus_UNCHANGED == "unchanged"

SeqsUpTo(S, n) == UNION {[1..k -> S] : k \in 0..n}

RECURSIVE SumLen(_)
SumLen(ss) == IF ss = <<>> THEN 0 ELSE Len(Head(ss)) + SumLen(Tail(ss))

\* USState: MONTANA is the one configured member; "colorado" stands for a
\* member added to the enum without a STATE_CONFIGS entry (config.py:19-21).
USState == {"montana", "colorado"}

STATE_CONFIGS == [s \in {"montana"} |-> [url |-> "https://rules.mt.gov/browse"]]

ProductTypes == {"flower"}

ProcessedRule(name, description, citation, status, reason) ==
    [rule_name |-> name, rule_description |-> description,
     rule_text_citation |-> citation, status |-> status,
     change_reason |-> reason]

\* Raw rules the scraping agent can return (Rule), and a record that lacks a
\* required field
RuleFields == {"rule_number", "effective_date", "rule_text", "rule_text_citation"}

RawRules ==
    {[rule_number |-> "42.39.301", effective_date |-> "2023-01-01",
      rule_text |-> "text 301", rule_text_citation |-> "c1"],
     [rule_number |-> "42.39.302", effective_date |-> "2023-01-01",
      rule_text |-> "text 302", rule_text_citation |-> "c2"]}

MalformedRecord == [rule_number |-> "42.39.303", rule_text_citation |-> "c1"]

\* What Gemini extracts from a rule text in a pipeline run (ExtractedRule)
ExtractedRule == {[rule_name |-> "n1", rule_description |-> "d1"]}

\* Candidate rules as EXTRACT leaves them in processed_rules: status NEW, no
\* reason, the citation of a raw rule
CandidateRules ==
    {ProcessedRule(n.rule_name, n.rule_description, c, ChangeStatus_NEW, None) :
        n \in {[rule_name |-> "n1", rule_description |-> "d1"],
               [rule_name |-> "n2", rule_description |-> "d2"]},
        c \in {"c1", "c2"}}

\* Rules a caller can supply as existing_rules: two rules of one citation
\* that differ in everything else
PriorRules ==
    {ProcessedRule("n1", "d1", "c1", ChangeStatus_NEW, None),
     ProcessedRule("n2", "d2", "c1", ChangeStatus_UPDATED, "X")}

-----------------------------------------------------------------------------
(* Replies of the collaborators *)

\* FirecrawlApp.agent: raises, returns nothing usable, or returns records
AgentReplies ==
    {[kind |-> "raise", records |-> <<>>], [kind |-> "nodata", records |-> <<>>]}
    \cup {[kind |-> "data", records |-> r] :
            r \in SeqsUpTo(RawRules \cup {MalformedRecord}, MaxRaw)}

\* generate_content for extraction: raises, empty text, text that does not
\* validate, or a RuleExtractionResult
ExtractionReplies ==
    {[kind |-> k, rules |-> <<>>] : k \in {"raise", "empty", "unparseable"}}
    \cup {[kind |-> "parsed", rules |-> r] :
            r \in SeqsUpTo(ExtractedRule, MaxCandidates)}

\* generate_content for comparison: raises, empty text, text that does not
\* validate, or a RuleComparisonResult
ComparisonReplies ==
    {[kind |-> k, are_equivalent |-> FALSE, change_reason |-> None] :
        k \in {"raise", "empty", "unparseable"}}
    \cup {[kind |-> "parsed", are_equivalent |-> e, change_reason |-> r] :
            e \in BOOLEAN, r \in {None, "X"}}

\* The comparison replies drawn in a run of the whole pipeline: equivalent,
\* not equivalent with a reason, and a failed call
PipelineComparisonReplies ==
    {[kind |-> "parsed", are_equivalent |-> TRUE, change_reason |-> None],
     [kind |-> "parsed", are_equivalent |-> FALSE, change_reason |-> "X"],
     [kind |-> "raise", are_equivalent |-> FALSE, change_reason |-> None]}

\* str(e) of the exception a failed generate_content call ends in
LLMFailure(reply) ==
    CASE reply.kind = "raise" -> "API error"
      [] reply.kind = "empty" -> "Gemini returned empty response"
      [] OTHER -> "validation error"

-----------------------------------------------------------------------------
(* app/config.py *)

\* get_state_config: the StateConfig of a state, or ValueError
get_state_config(us_state) ==
    IF us_state \notin DOMAIN STATE_CONFIGS
    THEN [raised |-> TRUE, msg |-> "State is not configured", url |-> ""]
    ELSE [raised |-> FALSE, msg |-> None, url |-> STATE_CONFIGS[us_state].url]

-----------------------------------------------------------------------------
(* app/services/firecrawl_service.py *)

\* Rule(**rule_data) validates: every required field is present
IsRule(rule_data) == RuleFields \subseteq DOMAIN rule_data

\* FirecrawlService.extract_rules building the prompt (and reading the state
\* configuration) only after the agent call
FirecrawlService_extract_rules_AgentFirst(us_state, product_type, reply) ==
    LET state_config == get_state_config(us_state) IN
    IF reply.kind = "raise"
    THEN [raised |-> TRUE, msg |-> "Firecrawl extraction failed: agent error",
          rules |-> <<>>, url |-> "", agent_called |-> TRUE]
    ELSE IF state_config.raised
    THEN [raised |-> TRUE, msg |-> state_config.msg, rules |-> <<>>,
          url |-> "", agent_called |-> TRUE]
    ELSE [raised |-> FALSE, msg |-> None,
          rules |-> SelectSeq(reply.records, IsRule),
          url |-> state_config.url, agent_called |-> TRUE]

\* FirecrawlService.extract_rules.  The prompt (and with it the state
\* configuration) is built before the try block, so a ValueError of
\* get_state_config leaves the method before the agent is called.  `reply`
\* is what self.app.agent does if it is called.
FirecrawlService_extract_rules(us_state, product_type, reply) ==
    LET state_config == get_state_config(us_state) IN
    IF state_config.raised
    THEN [raised |-> TRUE, msg |-> state_config.msg, rules |-> <<>>,
          url |-> "", agent_called |-> FALSE]
    ELSE IF reply.kind = "raise"
    THEN [raised |-> TRUE, msg |-> "Firecrawl extraction failed: agent error",
          rules |-> <<>>, url |-> "", agent_called |-> TRUE]
    ELSE [raised |-> FALSE, msg |-> None,
          rules |-> SelectSeq(reply.records, IsRule),
          url |-> state_config.url, agent_called |-> TRUE]

-----------------------------------------------------------------------------
(* app/services/gemini_service.py *)

\* extract_rules_from_text filling the citation of a candidate from the
\* rule text instead of the rule's citation
extract_rules_from_text_CitesText(rule_text, rule_text_citation, reply) ==
    IF reply.kind # "parsed"
    THEN [raised |-> TRUE,
          msg |-> "Rule extraction failed: " \o LLMFailure(reply),
          rules |-> <<>>]
    ELSE [raised |-> FALSE, msg |-> None,
          rules |-> [i \in 1..Len(reply.rules) |->
                        ProcessedRule(reply.rules[i].rule_name,
                                      reply.rules[i].rule_description,
                                      rule_text,
                                      ChangeStatus_NEW, None)]]

\* GeminiService.extract_rules_from_text: the candidate rules of one raw
\* rule, or an Exception when the call raises, returns no text or returns
\* text that does not validate
extract_rules_from_text(rule_text, rule_text_citation, reply) ==
    IF reply.kind # "parsed"
    THEN [raised |-> TRUE,
          msg |-> "Rule extraction failed: " \o LLMFailure(reply),
          rules |-> <<>>]
    ELSE [raised |-> FALSE, msg |-> None,
          rules |-> [i \in 1..Len(reply.rules) |->
                        ProcessedRule(reply.rules[i].rule_name,
                                      reply.rules[i].rule_description,
                                      rule_text_citation,
                                      ChangeStatus_NEW, None)]]

\* ExtractStep with the failure of one item discarding the rules gathered so
\* far (a return of [] in the except branch instead of continue)
ExtractStep_DropsSiblings(acc, i, scraped_rule, reply) ==
    LET extracted == extract_rules_from_text(scraped_rule.rule_text,
                                             scraped_rule.rule_text_citation,
                                             reply)
        call == [index |-> i, rule |-> scraped_rule, reply |-> reply]
    IN  [rules |-> IF extracted.raised THEN <<>>
                   ELSE acc.rules \o extracted.rules,
         calls |-> Append(acc.calls, call)]

\* ExtractStep making the call a second time when it failed
ExtractStep_RetriesOnce(acc, i, scraped_rule, reply) ==
    LET extracted == extract_rules_from_text(scraped_rule.rule_text,
                                             scraped_rule.rule_text_citation,
                                             reply)
        call == [index |-> i, rule |-> scraped_rule, reply |-> reply]
    IN  [rules |-> IF extracted.raised THEN acc.rules
                   ELSE acc.rules \o extracted.rules,
         calls |-> IF extracted.raised THEN acc.calls \o <<call, call>>
                   ELSE Append(acc.calls, call)]

\* One iteration of the loop of extract_rules_from_scraped_data: one call of
\* extract_rules_from_text; extend on success, continue on failure.  acc is
\* all_processed_rules together with the history of the calls made.
ExtractStep(acc, i, scraped_rule, reply) ==
    LET extracted == extract_rules_from_text(scraped_rule.rule_text,
                                             scraped_rule.rule_text_citation,
                                             reply)
        call == [index |-> i, rule |-> scraped_rule, reply |-> reply]
    IN  [rules |-> IF extracted.raised THEN acc.rules
                   ELSE acc.rules \o extracted.rules,
         calls |-> Append(acc.calls, call)]

\* GeminiService.extract_rules_from_scraped_data; replies[i] is the reply to
\* the call made for scraped_rules[i]
RECURSIVE ExtractLoop(_, _, _, _)
ExtractLoop(scraped_rules, replies, i, acc) ==
    IF i > Len(scraped_rules) THEN acc
    ELSE ExtractLoop(scraped_rules, replies, i + 1,
                     ExtractStep(acc, i, scraped_rules[i], replies[i]))

extract_rules_from_scraped_data(scraped_rules, replies) ==
    ExtractLoop(scraped_rules, replies, 1, [rules |-> <<>>, calls |-> <<>>])

\* compare_rules passing the reply's change_reason also when equivalent
compare_rules_KeepsReason(existing_rule, new_rule, reply) ==
    IF reply.kind = "parsed"
    THEN IF reply.are_equivalent
         THEN <<ChangeStatus_UNCHANGED, reply.change_reason>>
         ELSE <<ChangeStatus_UPDATED, reply.change_reason>>
    ELSE <<ChangeStatus_UPDATED, "Comparison error: " \o LLMFailure(reply)>>

\* compare_rules dropping the reply's change_reason
compare_rules_DropsReason(existing_rule, new_rule, reply) ==
    IF reply.kind = "parsed"
    THEN IF reply.are_equivalent
         THEN <<ChangeStatus_UNCHANGED, None>>
         ELSE <<ChangeStatus_UPDATED, None>>
    ELSE <<ChangeStatus_UPDATED, "Comparison error: " \o LLMFailure(reply)>>

\* compare_rules treating a failed call as no change
compare_rules_SwallowsFailure(existing_rule, new_rule, reply) ==
    IF reply.kind = "parsed"
    THEN IF reply.are_equivalent
         THEN <<ChangeStatus_UNCHANGED, None>>
         ELSE <<ChangeStatus_UPDATED, reply.change_reason>>
    ELSE <<ChangeStatus_UNCHANGED, None>>

\* compare_rules reporting a rule whose comparison failed as new
compare_rules_NewOnFailure(existing_rule, new_rule, reply) ==
    IF reply.kind = "parsed"
    THEN IF reply.are_equivalent
         THEN <<ChangeStatus_UNCHANGED, None>>
         ELSE <<ChangeStatus_UPDATED, reply.change_reason>>
    ELSE <<ChangeStatus_NEW, None>>

\* GeminiService.compare_rules: (status, change_reason)
compare_rules(existing_rule, new_rule, reply) ==
    IF reply.kind = "parsed"
    THEN IF reply.are_equivalent
         THEN <<ChangeStatus_UNCHANGED, None>>
         ELSE <<ChangeStatus_UPDATED, reply.change_reason>>
    ELSE <<ChangeStatus_UPDATED, "Comparison error: " \o LLMFailure(reply)>>

\* existing_map keeping the first rule of a citation instead of the last
existing_map_FirstWins(existing_rules) ==
    LET keys == {existing_rules[i].rule_text_citation : i \in DOMAIN existing_rules}
        first(c) == CHOOSE i \in DOMAIN existing_rules :
                       /\ existing_rules[i].rule_text_citation = c
                       /\ \A j \in DOMAIN existing_rules :
                             existing_rules[j].rule_text_citation = c => i <= j
    IN  [c \in keys |-> existing_rules[first(c)]]

\* existing_map = {rule.rule_text_citation: rule for rule in existing_rules}:
\* a later rule overwrites an earlier one with the same citation
existing_map(existing_rules) ==
    LET keys == {existing_rules[i].rule_text_citation : i \in DOMAIN existing_rules}
        last(c) == CHOOSE i \in DOMAIN existing_rules :
                      /\ existing_rules[i].rule_text_citation = c
                      /\ \A j \in DOMAIN existing_rules :
                            existing_rules[j].rule_text_citation = c => j <= i
    IN  [c \in keys |-> existing_rules[last(c)]]

\* CompareStep building a matched final rule from the existing rule's name
\* and description instead of the new rule's
CompareStep_UsesExisting(acc, map, i, new_rule, reply) ==
    LET citation == new_rule.rule_text_citation IN
    IF citation \in DOMAIN map
    THEN LET existing_rule == map[citation]
             result == compare_rules(existing_rule, new_rule, reply)
             call == [index |-> i, existing_rule |-> existing_rule,
                      new_rule |-> new_rule, reply |-> reply]
         IN  [rules |-> Append(acc.rules,
                           ProcessedRule(existing_rule.rule_name,
                                         existing_rule.rule_description,
                                         new_rule.rule_text_citation,
                                         result[1], result[2])),
              calls |-> Append(acc.calls, call)]
    ELSE [rules |-> Append(acc.rules,
                       ProcessedRule(new_rule.rule_name,
                                     new_rule.rule_description,
                                     new_rule.rule_text_citation,
                                     ChangeStatus_NEW, None)),
          calls |-> acc.calls]

\* CompareStep also matching a new rule to an existing rule of the same name
\* when its citation is not in the map
CompareStep_MatchByName(acc, map, i, new_rule, reply) ==
    LET citation == new_rule.rule_text_citation
        same_name == {c \in DOMAIN map : map[c].rule_name = new_rule.rule_name}
    IN
    IF citation \in DOMAIN map \/ same_name # {}
    THEN LET existing_rule == IF citation \in DOMAIN map THEN map[citation]
                              ELSE map[CHOOSE c \in same_name : TRUE]
             result == compare_rules(existing_rule, new_rule, reply)
             call == [index |-> i, existing_rule |-> existing_rule,
                      new_rule |-> new_rule, reply |-> reply]
         IN  [rules |-> Append(acc.rules,
                           ProcessedRule(new_rule.rule_name,
                                         new_rule.rule_description,
                                         new_rule.rule_text_citation,
                                         result[1], result[2])),
              calls |-> Append(acc.calls, call)]
    ELSE [rules |-> Append(acc.rules,
                       ProcessedRule(new_rule.rule_name,
                                     new_rule.rule_description,
                                     new_rule.rule_text_citation,
                                     ChangeStatus_NEW, None)),
          calls |-> acc.calls]

\* CompareStep filling an empty reason of a matched rule from the existing
\* rule's change_reason
CompareStep_KeepsPriorReason(acc, map, i, new_rule, reply) ==
    LET citation == new_rule.rule_text_citation IN
    IF citation \in DOMAIN map
    THEN LET existing_rule == map[citation]
             result == compare_rules(existing_rule, new_rule, reply)
             call == [index |-> i, existing_rule |-> existing_rule,
                      new_rule |-> new_rule, reply |-> reply]
         IN  [rules |-> Append(acc.rules,
                           ProcessedRule(new_rule.rule_name,
                                         new_rule.rule_description,
                                         new_rule.rule_text_citation,
                                         result[1],
                                         IF result[2] = None
                                         THEN existing_rule.change_reason
                                         ELSE result[2])),
              calls |-> Append(acc.calls, call)]
    ELSE [rules |-> Append(acc.rules,
                       ProcessedRule(new_rule.rule_name,
                                     new_rule.rule_description,
                                     new_rule.rule_text_citation,
                                     ChangeStatus_NEW, None)),
          calls |-> acc.calls]

\* One iteration of the loop of compare_rule_sets: append the final rule
\* for new_rule, after a compare_rules call when its citation is in the map.
\* acc is final_rules together with the history of the calls made.
CompareStep(acc, map, i, new_rule, reply) ==
    LET citation == new_rule.rule_text_citation IN
    IF citation \in DOMAIN map
    THEN LET existing_rule == map[citation]
             result == compare_rules(existing_rule, new_rule, reply)
             call == [index |-> i, existing_rule |-> existing_rule,
                      new_rule |-> new_rule, reply |-> reply]
         IN  [rules |-> Append(acc.rules,
                           ProcessedRule(new_rule.rule_name,
                                         new_rule.rule_description,
                                         new_rule.rule_text_citation,
                                         result[1], result[2])),
              calls |-> Append(acc.calls, call)]
    ELSE [rules |-> Append(acc.rules,
                       ProcessedRule(new_rule.rule_name,
                                     new_rule.rule_description,
                                     new_rule.rule_text_citation,
                                     ChangeStatus_NEW, None)),
          calls |-> acc.calls]

\* The loop of compare_rule_sets walking new_rules from the last rule to the
\* first (final_rules still in the order of new_rules)
RECURSIVE CompareLoop_Reversed(_, _, _, _, _)
CompareLoop_Reversed(map, new_rules, replies, i, acc) ==
    IF i > Len(new_rules) THEN acc
    ELSE LET j == Len(new_rules) - i + 1
             step == CompareStep([rules |-> <<>>, calls |-> acc.calls], map, j,
                                 new_rules[j], replies[j])
         IN  CompareLoop_Reversed(map, new_rules, replies, i + 1,
                                  [rules |-> step.rules \o acc.rules,
                                   calls |-> step.calls])

\* GeminiService.compare_rule_sets; replies[i] is the reply the classifier
\* gives if it is asked about new_rules[i]
RECURSIVE CompareLoop(_, _, _, _, _)
CompareLoop(map, new_rules, replies, i, acc) ==
    IF i > Len(new_rules) THEN acc
    ELSE CompareLoop(map, new_rules, replies, i + 1,
                     CompareStep(acc, map, i, new_rules[i], replies[i]))

compare_rule_sets(existing_rules, new_rules, replies) ==
    CompareLoop(existing_map(existing_rules), new_rules, replies, 1,
                [rules |-> <<>>, calls |-> <<>>])

-----------------------------------------------------------------------------
(* app/graph/state.py *)

Keys == {"state", "product_type", "existing_rules", "source_url",
         "scraped_rules", "processed_rules", "final_rules", "error"}

\* An Optional[List[ProcessedRule]] argument: None, or a list
NoRules == [is_none |-> TRUE, value |-> <<>>]
SomeRules(rules) == [is_none |-> FALSE, value |-> rules]

\* x or []
OrEmpty(x) == IF x.is_none \/ x.value = <<>> THEN <<>> ELSE x.value

\* Python truth of an Optional[str]
Truthy(x) == x # None /\ x # ""

create_initial_state(us_state, product_type, existing_rules) ==
    [state |-> us_state,
     product_type |-> product_type,
     existing_rules |-> OrEmpty(existing_rules),
     source_url |-> "",
     scraped_rules |-> <<>>,
     processed_rules |-> <<>>,
     final_rules |-> <<>>,
     error |-> None]

\* The graph engine applies a node's return value to the state: PipelineState
\* declares no reducer, so each key of the update overwrites the state's value
\* and every other key keeps it.
ApplyUpdate(st, update) ==
    [k \in Keys |-> IF k \in DOMAIN update THEN update[k] ELSE st[k]]

-----------------------------------------------------------------------------
(* app/graph/nodes.py *)

\* get_firecrawl_service / get_gemini_service: the module-level handle,
\* created on first use.  ctor_ok tells whether the constructor returns (it
\* is run only while the handle is None).
get_service(handle, name, ctor_ok) ==
    IF handle # None THEN [raised |-> FALSE, msg |-> None, handle |-> handle]
    ELSE IF ctor_ok THEN [raised |-> FALSE, msg |-> None, handle |-> name]
    ELSE [raised |-> TRUE, msg |-> name \o " init failed", handle |-> None]

get_firecrawl_service(handle, ctor_ok) ==
    get_service(handle, "FirecrawlService", ctor_ok)

get_gemini_service(handle, ctor_ok) ==
    get_service(handle, "GeminiService", ctor_ok)

\* The rules with status NEW and no reason (nodes.py:146-155, 210-219)
AllNew(rules) ==
    [i \in 1..Len(rules) |->
        ProcessedRule(rules[i].rule_name, rules[i].rule_description,
                      rules[i].rule_text_citation, ChangeStatus_NEW, None)]

\* scrape_node: the update it returns, the handle it leaves and the agent
\* calls it made
scrape_node(st, handle, ctor_ok, reply) ==
    LET svc == get_firecrawl_service(handle, ctor_ok) IN
    IF svc.raised
    THEN [update |-> [scraped_rules |-> <<>>, source_url |-> "",
                      error |-> "Scraping failed: " \o svc.msg],
          handle |-> svc.handle, calls |-> <<>>]
    ELSE LET got == FirecrawlService_extract_rules(st.state, st.product_type, reply)
             calls == IF got.agent_called THEN <<reply.kind>> ELSE <<>>
         IN  IF got.raised
             THEN [update |-> [scraped_rules |-> <<>>, source_url |-> "",
                               error |-> "Scraping failed: " \o got.msg],
                   handle |-> svc.handle, calls |-> calls]
             ELSE [update |-> [scraped_rules |-> got.rules,
                               source_url |-> got.url, error |-> None],
                   handle |-> svc.handle, calls |-> calls]

\* extract_rules_node recording a stage error when the reply to one of the
\* extraction calls is empty or does not parse
extract_rules_node_FailsStage(st, handle, ctor_ok, replies) ==
    IF st.scraped_rules = <<>>
    THEN [update |-> [processed_rules |-> <<>>, error |-> None],
          handle |-> handle, calls |-> <<>>]
    ELSE LET svc == get_gemini_service(handle, ctor_ok) IN
         IF svc.raised
         THEN [update |-> [processed_rules |-> <<>>,
                           error |-> "Rule extraction failed: " \o svc.msg],
               handle |-> svc.handle, calls |-> <<>>]
         ELSE LET got == extract_rules_from_scraped_data(st.scraped_rules, replies)
                  failed == {i \in DOMAIN got.calls :
                                got.calls[i].reply.kind \in {"empty", "unparseable"}}
              IN  IF failed # {}
                  THEN [update |-> [processed_rules |-> <<>>,
                                    error |-> "Rule extraction failed: "
                                              \o "Gemini returned no usable response"],
                        handle |-> svc.handle, calls |-> got.calls]
                  ELSE [update |-> [processed_rules |-> got.rules, error |-> None],
                        handle |-> svc.handle, calls |-> got.calls]

\* extract_rules_node
extract_rules_node(st, handle, ctor_ok, replies) ==
    IF st.scraped_rules = <<>>
    THEN [update |-> [processed_rules |-> <<>>, error |-> None],
          handle |-> handle, calls |-> <<>>]
    ELSE LET svc == get_gemini_service(handle, ctor_ok) IN
         IF svc.raised
         THEN [update |-> [processed_rules |-> <<>>,
                           error |-> "Rule extraction failed: " \o svc.msg],
               handle |-> svc.handle, calls |-> <<>>]
         ELSE LET got == extract_rules_from_scraped_data(st.scraped_rules, replies)
              IN  [update |-> [processed_rules |-> got.rules, error |-> None],
                   handle |-> svc.handle, calls |-> got.calls]

\* compare_node writing the outcome back into the existing rules: every
\* existing rule whose citation a candidate has is marked unchanged
compare_node_MarksPrior(st, handle, ctor_ok, replies) ==
    IF st.existing_rules = <<>>
    THEN [update |-> [final_rules |-> AllNew(st.processed_rules), error |-> None],
          handle |-> handle, calls |-> <<>>]
    ELSE LET svc == get_gemini_service(handle, ctor_ok) IN
         IF svc.raised
         THEN [update |-> [final_rules |-> <<>>,
                           error |-> "Comparison failed: " \o svc.msg],
               handle |-> svc.handle, calls |-> <<>>]
         ELSE LET got == compare_rule_sets(st.existing_rules, st.processed_rules,
                                          replies)
                  seen == {st.processed_rules[i].rule_text_citation :
                              i \in DOMAIN st.processed_rules}
                  marked == [j \in DOMAIN st.existing_rules |->
                                IF st.existing_rules[j].rule_text_citation \in seen
                                THEN [st.existing_rules[j] EXCEPT
                                         !.status = ChangeStatus_UNCHANGED,
                                         !.change_reason = None]
                                ELSE st.existing_rules[j]]
              IN  [update |-> [final_rules |-> got.rules, error |-> None,
                               existing_rules |-> marked],
                   handle |-> svc.handle, calls |-> got.calls]

\* compare_node with a service that keeps the existing rule it compared
\* against last and compares against the kept rule from then on
compare_node_CachesPrior(st, handle, ctor_ok, replies) ==
    IF st.existing_rules = <<>>
    THEN [update |-> [final_rules |-> AllNew(st.processed_rules), error |-> None],
          handle |-> handle, calls |-> <<>>]
    ELSE LET svc == get_gemini_service(handle, ctor_ok) IN
         IF svc.raised
         THEN [update |-> [final_rules |-> <<>>,
                           error |-> "Comparison failed: " \o svc.msg],
               handle |-> svc.handle, calls |-> <<>>]
         ELSE LET kept == {r \in PriorRules :
                              handle = "GeminiService:" \o r.rule_name}
                  existing == IF kept # {} THEN <<CHOOSE r \in kept : TRUE>>
                              ELSE st.existing_rules
                  got == compare_rule_sets(existing, st.processed_rules, replies)
              IN  [update |-> [final_rules |-> got.rules, error |-> None],
                   handle |-> "GeminiService:"
                                 \o existing[Len(existing)].rule_name,
                   calls |-> got.calls]

\* compare_node
compare_node(st, handle, ctor_ok, replies) ==
    IF st.existing_rules = <<>>
    THEN [update |-> [final_rules |-> AllNew(st.processed_rules), error |-> None],
          handle |-> handle, calls |-> <<>>]
    ELSE LET svc == get_gemini_service(handle, ctor_ok) IN
         IF svc.raised
         THEN [update |-> [final_rules |-> <<>>,
                           error |-> "Comparison failed: " \o svc.msg],
               handle |-> svc.handle, calls |-> <<>>]
         ELSE LET got == compare_rule_sets(st.existing_rules, st.processed_rules,
                                          replies)
              IN  [update |-> [final_rules |-> got.rules, error |-> None],
                   handle |-> svc.handle, calls |-> got.calls]

\* format_response_node marking the rules of a run without existing rules
\* unchanged instead of new
format_response_node_Unchanged(st) ==
    IF st.existing_rules = <<>> /\ st.final_rules = <<>> /\ st.processed_rules # <<>>
    THEN [final_rules |->
             [i \in 1..Len(st.processed_rules) |->
                 ProcessedRule(st.processed_rules[i].rule_name,
                               st.processed_rules[i].rule_description,
                               st.processed_rules[i].rule_text_citation,
                               ChangeStatus_UNCHANGED, None)],
          error |-> None]
    ELSE [error |-> None]

\* format_response_node rebuilding final_rules from processed_rules whenever
\* there are processed rules
format_response_node_AlwaysAllNew(st) ==
    IF st.processed_rules # <<>>
    THEN [final_rules |-> AllNew(st.processed_rules), error |-> None]
    ELSE [error |-> None]

\* format_response_node: the update it returns.  Nothing in its try block
\* raises on a PipelineState, so the except branch (231-235) is not taken.
format_response_node(st) ==
    IF st.existing_rules = <<>> /\ st.final_rules = <<>> /\ st.processed_rules # <<>>
    THEN [final_rules |-> AllNew(st.processed_rules), error |-> None]
    ELSE [error |-> None]

\* should_compare ending the run at once when the state holds an error
should_compare_SkipsFormat(st) ==
    IF Truthy(st.error) THEN "END"
    ELSE IF st.existing_rules # <<>> /\ Len(st.existing_rules) > 0 THEN "compare"
    ELSE "format"

\* should_compare answering with a key the conditional edge does not map
\* when the state holds an error
should_compare_UnknownNode(st) ==
    IF Truthy(st.error) THEN "error"
    ELSE IF st.existing_rules # <<>> /\ Len(st.existing_rules) > 0 THEN "compare"
    ELSE "format"

\* should_compare: the node the conditional edge after extract_rules selects
should_compare(st) ==
    IF Truthy(st.error) THEN "format"
    ELSE IF st.existing_rules # <<>> /\ Len(st.existing_rules) > 0 THEN "compare"
    ELSE "format"

-----------------------------------------------------------------------------
(* app/graph/workflow.py *)

\* BuildResponse reporting a run without rules as a failure, with the
\* state's error as it is
BuildResponse_SuccessFromRules(us_state, product_type, final_state) ==
    LET final_rules ==
            IF final_state.final_rules = <<>> /\ final_state.processed_rules # <<>>
            THEN final_state.processed_rules
            ELSE final_state.final_rules
    IN  [success |-> final_rules # <<>>, state |-> us_state,
         product_type |-> product_type,
         source_url |-> final_state.source_url,
         total_rules_extracted |-> Len(final_rules),
         rules |-> final_rules, error |-> final_state.error]

\* BuildResponse counting the scraped raw rules
BuildResponse_CountsScraped(us_state, product_type, final_state) ==
    IF Truthy(final_state.error)
    THEN [success |-> FALSE, state |-> us_state, product_type |-> product_type,
          source_url |-> final_state.source_url, total_rules_extracted |-> 0,
          rules |-> <<>>, error |-> final_state.error]
    ELSE LET final_rules ==
                 IF final_state.final_rules = <<>> /\ final_state.processed_rules # <<>>
                 THEN final_state.processed_rules
                 ELSE final_state.final_rules
         IN  [success |-> TRUE, state |-> us_state, product_type |-> product_type,
              source_url |-> final_state.source_url,
              total_rules_extracted |-> Len(final_state.scraped_rules),
              rules |-> final_rules, error |-> None]

\* run_extraction_workflow, lines 119-157: the response built from the final
\* state of the graph
BuildResponse(us_state, product_type, final_state) ==
    IF Truthy(final_state.error)
    THEN [success |-> FALSE, state |-> us_state, product_type |-> product_type,
          source_url |-> final_state.source_url, total_rules_extracted |-> 0,
          rules |-> <<>>, error |-> final_state.error]
    ELSE LET final_rules ==
                 IF final_state.final_rules = <<>> /\ final_state.processed_rules # <<>>
                 THEN final_state.processed_rules
                 ELSE final_state.final_rules
         IN  [success |-> TRUE, state |-> us_state, product_type |-> product_type,
              source_url |-> final_state.source_url,
              total_rules_extracted |-> Len(final_rules),
              rules |-> final_rules, error |-> None]

-----------------------------------------------------------------------------
(* app/api/routes.py *)

\* extract_rules answering 200 with whatever the workflow returned
extract_rules_AlwaysOk(response) ==
    [status_code |-> 200, detail |-> None, body |-> <<response>>]

\* extract_rules, the handler of POST /api/v1/extract-rules, from the return
\* of run_extraction_workflow on: HTTPException(500) with the response's
\* error (or "Extraction failed") as detail when success is false, the
\* response itself with 200 otherwise.  run_extraction_workflow returns in
\* every run of the model, so the handler's except Exception branch is not
\* taken.
extract_rules(response) ==
    IF ~response.success
    THEN [status_code |-> 500,
          detail |-> IF Truthy(response.error) THEN response.error
                     ELSE "Extraction failed",
          body |-> <<>>]
    ELSE [status_code |-> 200, detail |-> None, body |-> <<response>>]

-----------------------------------------------------------------------------
(* The state machine: one request *)

Requests ==
    [state : USState, product_type : ProductTypes,
     existing_rules : {NoRules} \cup {SomeRules(r) : r \in SeqsUpTo(PriorRules, MaxPrior)}]

\* run_extraction_workflow up to the invocation of the graph
Init ==
    /\ request \in Requests
    /\ state = create_initial_state(request.state, request.product_type,
                                    request.existing_rules)
    /\ pc = "scrape"
    /\ responses = <<>>
    /\ firecrawl_service = None
    /\ gemini_service = None
    /\ agent_calls = <<>>
    /\ extract_calls = <<>>
    /\ compare_calls = <<>>
    /\ visited = <<>>
    /\ answers = <<>>
    /\ other = None

\* Replies to the extraction calls of one EXTRACT stage
ExtractionReplySeqs(n) ==
    {replies \in [1..n -> ExtractionReplies] :
        SumLen([i \in 1..n |-> replies[i].rules]) <= MaxCandidates}

\* Node scrape, then the edge scrape -> extract_rules; the agent's reply is
\* drawn from Replies
ScrapeNodeWith(Replies) ==
    /\ pc = "scrape"
    /\ \E ctor_ok \in BOOLEAN, reply \in Replies :
         LET out == scrape_node(state, firecrawl_service, ctor_ok, reply) IN
         /\ state' = ApplyUpdate(state, out.update)
         /\ firecrawl_service' = out.handle
         /\ agent_calls' = agent_calls \o out.calls
         /\ visited' = Append(visited, [node |-> "scrape", error |-> out.update.error])
    /\ pc' = "extract_rules"
    /\ UNCHANGED <<request, responses, gemini_service, extract_calls, compare_calls,
                   answers, other>>

ScrapeNode == ScrapeNodeWith(AgentReplies)

\* Node extract_rules, then the conditional edge should_compare
ExtractRulesNode ==
    /\ pc = "extract_rules"
    /\ \E ctor_ok \in BOOLEAN,
          replies \in ExtractionReplySeqs(Len(state.scraped_rules)) :
         LET out == extract_rules_node(state, gemini_service, ctor_ok, replies) IN
         /\ state' = ApplyUpdate(state, out.update)
         /\ gemini_service' = out.handle
         /\ extract_calls' = extract_calls \o out.calls
         /\ visited' = Append(visited, [node |-> "extract_rules",
                                        error |-> out.update.error])
    /\ pc' = should_compare(state')
    /\ UNCHANGED <<request, responses, firecrawl_service, agent_calls, compare_calls,
                   answers, other>>

\* Node compare, then the edge compare -> format; the classifier replies
\* are drawn from Replies
CompareNodeWith(Replies) ==
    /\ pc = "compare"
    /\ \E ctor_ok \in BOOLEAN,
          replies \in [1..Len(state.processed_rules) -> Replies] :
         LET out == compare_node(state, gemini_service, ctor_ok, replies) IN
         /\ state' = ApplyUpdate(state, out.update)
         /\ gemini_service' = out.handle
         /\ compare_calls' = compare_calls \o out.calls
         /\ visited' = Append(visited, [node |-> "compare", error |-> out.update.error])
    /\ pc' = "format"
    /\ UNCHANGED <<request, responses, firecrawl_service, agent_calls, extract_calls,
                   answers, other>>

CompareNode == CompareNodeWith(PipelineComparisonReplies)

\* Node format, then the edge format -> END
FormatResponseNode ==
    /\ pc = "format"
    /\ LET update == format_response_node(state) IN
         /\ state' = ApplyUpdate(state, update)
         /\ visited' = Append(visited, [node |-> "format", error |-> update.error])
    /\ pc' = "END"
    /\ UNCHANGED <<request, responses, firecrawl_service, gemini_service,
                   agent_calls, extract_calls, compare_calls, answers, other>>

\* run_extraction_workflow after ainvoke returns: build the response
Respond ==
    /\ pc = "END"
    /\ responses' = Append(responses,
                           BuildResponse(request.state, request.product_type, state))
    /\ pc' = "done"
    /\ UNCHANGED <<request, state, firecrawl_service, gemini_service,
                   agent_calls, extract_calls, compare_calls, visited, answers,
                   other>>

\* The endpoint after run_extraction_workflow has returned: answer the caller
ExtractRulesEndpoint ==
    /\ pc = "done"
    /\ answers' = Append(answers, extract_rules(responses[Len(responses)]))
    /\ pc' = "answered"
    /\ UNCHANGED <<request, state, responses, firecrawl_service, gemini_service,
                   agent_calls, extract_calls, compare_calls, visited, other>>

Next ==
    \/ ScrapeNode
    \/ ExtractRulesNode
    \/ CompareNode
    \/ FormatResponseNode
    \/ Respond
    \/ ExtractRulesEndpoint

Spec == Init /\ [][Next]_vars

\* The run under the assumption that every collaborator call returns or
\* raises: every node is awaited, so a step that can be taken is taken.  The
\* agent's reply holds at most two records here: a longer reply adds raw
\* rules, not ways to fail.
FairAgentReplies ==
    {[kind |-> "raise", records |-> <<>>], [kind |-> "nodata", records |-> <<>>]}
    \cup {[kind |-> "data", records |-> r] :
            r \in SeqsUpTo(RawRules \cup {MalformedRecord}, 2)}

NextFair ==
    \/ ScrapeNodeWith(FairAgentReplies)
    \/ ExtractRulesNode
    \/ CompareNode
    \/ FormatResponseNode
    \/ Respond
    \/ ExtractRulesEndpoint

SpecFair == Init /\ [][NextFair]_vars /\ WF_vars(NextFair)

-----------------------------------------------------------------------------
(* Reconciliation on its own: the pipeline taken up at node compare, after  *)
(* a scrape and an extraction in which every raw rule gave one candidate.   *)
(* The prior set and the candidates are drawn from bounded sets and the     *)
(* classifier from all of ComparisonReplies.                                *)

RawOf(citation) == CHOOSE r \in RawRules : r.rule_text_citation = citation

ExtractedOf(rule) ==
    [rule_name |-> rule.rule_name, rule_description |-> rule.rule_description]

InitReconcile ==
    \E prior \in SeqsUpTo(PriorRules, MaxPrior) \ {<<>>},
       new_rules \in SeqsUpTo(CandidateRules, MaxCandidates) :
       LET scraped == [i \in 1..Len(new_rules) |->
                          RawOf(new_rules[i].rule_text_citation)]
       IN
       /\ request = [state |-> "montana", product_type |-> "flower",
                     existing_rules |-> SomeRules(prior)]
       /\ state = ApplyUpdate(
                     create_initial_state(request.state, request.product_type,
                                          request.existing_rules),
                     [source_url |-> STATE_CONFIGS["montana"].url,
                      scraped_rules |-> scraped,
                      processed_rules |-> new_rules])
       /\ pc = "compare"
       /\ responses = <<>>
       /\ firecrawl_service = "FirecrawlService"
       /\ gemini_service = IF new_rules = <<>> THEN None ELSE "GeminiService"
       /\ agent_calls = <<"data">>
       /\ extract_calls =
            [i \in 1..Len(new_rules) |->
                [index |-> i, rule |-> scraped[i],
                 reply |-> [kind |-> "parsed",
                            rules |-> <<ExtractedOf(new_rules[i])>>]]]
       /\ compare_calls = <<>>
       /\ visited = <<[node |-> "scrape", error |-> None],
                      [node |-> "extract_rules", error |-> None]>>
       /\ answers = <<>>
       /\ other = None

ReconcileNode == CompareNodeWith(ComparisonReplies)

NextReconcile ==
    \/ ReconcileNode
    \/ FormatResponseNode
    \/ Respond
    \/ ExtractRulesEndpoint

SpecReconcile == InitReconcile /\ [][NextReconcile]_vars

-----------------------------------------------------------------------------
(* A second extraction of unchanged rules: the pipeline taken up at node    *)
(* compare with the candidates N that extract_rules_from_scraped_data       *)
(* yields for some raw rules and replies (one raw rule may yield several    *)
(* candidates, which then share its citation), and with N itself, the       *)
(* outcome of the first extraction, as the prior rule set.                  *)

\* What Gemini can extract from a rule text: two different contents
ExtractedContents ==
    {[rule_name |-> "n1", rule_description |-> "d1"],
     [rule_name |-> "n2", rule_description |-> "d2"]}

InitSelf ==
    \E scraped \in SeqsUpTo(RawRules, MaxRaw) :
      \E replies \in [1..Len(scraped) ->
                         {[kind |-> "parsed", rules |-> r] :
                             r \in SeqsUpTo(ExtractedContents, MaxCandidates)}] :
       LET got == extract_rules_from_scraped_data(scraped, replies) IN
       /\ got.rules # <<>>
       /\ Len(got.rules) <= MaxCandidates
       /\ request = [state |-> "montana", product_type |-> "flower",
                     existing_rules |-> SomeRules(got.rules)]
       /\ state = ApplyUpdate(
                     create_initial_state(request.state, request.product_type,
                                          request.existing_rules),
                     [source_url |-> STATE_CONFIGS["montana"].url,
                      scraped_rules |-> scraped,
                      processed_rules |-> got.rules])
       /\ pc = "compare"
       /\ responses = <<>>
       /\ firecrawl_service = "FirecrawlService"
       /\ gemini_service = "GeminiService"
       /\ agent_calls = <<"data">>
       /\ extract_calls = got.calls
       /\ compare_calls = <<>>
       /\ visited = <<[node |-> "scrape", error |-> None],
                      [node |-> "extract_rules", error |-> None]>>
       /\ answers = <<>>
       /\ other = None

SpecSelf == InitSelf /\ [][NextReconcile]_vars

-----------------------------------------------------------------------------
(* Two requests in flight at once.  Each call of run_extraction_workflow    *)
(* builds its own graph and its own initial state; the event loop runs one  *)
(* coroutine at a time and passes from one request to the other where the   *)
(* running one awaits.  A node reads and sets the module-level handles       *)
(* before its first await, so a node is one step here too.  The variables of *)
(* a single run hold the request that is running, `other` the one that is    *)
(* waiting; the two handles belong to the module and are shared.            *)

TwoRequests ==
    [state : {"montana"}, product_type : ProductTypes,
     existing_rules : {NoRules} \cup {SomeRules(<<r>>) : r \in PriorRules}]

\* The agent's replies to the two requests: it raises, or returns one record
TwoAgentReplies ==
    {[kind |-> "raise", records |-> <<>>]}
    \cup {[kind |-> "data", records |-> <<r>>] : r \in RawRules}

\* The running request, as it is kept while it waits
Running ==
    [pc |-> pc, request |-> request, state |-> state, responses |-> responses,
     agent_calls |-> agent_calls, extract_calls |-> extract_calls,
     compare_calls |-> compare_calls, visited |-> visited, answers |-> answers]

InitTwo ==
    /\ request \in TwoRequests
    /\ state = create_initial_state(request.state, request.product_type,
                                    request.existing_rules)
    /\ pc = "scrape"
    /\ responses = <<>>
    /\ firecrawl_service = None
    /\ gemini_service = None
    /\ agent_calls = <<>>
    /\ extract_calls = <<>>
    /\ compare_calls = <<>>
    /\ visited = <<>>
    /\ answers = <<>>
    /\ \E second \in TwoRequests :
          other = [pc |-> "scrape", request |-> second,
                   state |-> create_initial_state(second.state, second.product_type,
                                                  second.existing_rules),
                   responses |-> <<>>, agent_calls |-> <<>>,
                   extract_calls |-> <<>>, compare_calls |-> <<>>,
                   visited |-> <<>>, answers |-> <<>>]

\* The event loop passes from the running request to the waiting one
Switch ==
    /\ pc' = other.pc
    /\ request' = other.request
    /\ state' = other.state
    /\ responses' = other.responses
    /\ agent_calls' = other.agent_calls
    /\ extract_calls' = other.extract_calls
    /\ compare_calls' = other.compare_calls
    /\ visited' = other.visited
    /\ answers' = other.answers
    /\ other' = Running
    /\ UNCHANGED <<firecrawl_service, gemini_service>>

NextTwo ==
    \/ ScrapeNodeWith(TwoAgentReplies)
    \/ ExtractRulesNode
    \/ CompareNode
    \/ FormatResponseNode
    \/ Respond
    \/ ExtractRulesEndpoint
    \/ Switch

SpecTwo == InitTwo /\ [][NextTwo]_vars

-----------------------------------------------------------------------------
(* The end of a request on its own: run_extraction_workflow from the return *)
(* of ainvoke on, and the endpoint, for the final states a PipelineState    *)
(* can hold: with or without an error, with or without final rules.         *)

NodeErrors ==
    {"Scraping failed: Firecrawl extraction failed: agent error",
     "Comparison failed: GeminiService init failed"}

FinalStates ==
    {ApplyUpdate(create_initial_state("montana", "flower", NoRules),
                 [source_url |-> STATE_CONFIGS["montana"].url,
                  processed_rules |-> processed,
                  final_rules |-> final,
                  error |-> error]) :
        processed \in SeqsUpTo(CandidateRules, 1),
        final \in SeqsUpTo(CandidateRules, MaxCandidates),
        error \in {None} \cup NodeErrors}

InitEndpoint ==
    /\ request = [state |-> "montana", product_type |-> "flower",
                  existing_rules |-> NoRules]
    /\ state \in FinalStates
    /\ pc = "END"
    /\ responses = <<>>
    /\ firecrawl_service = "FirecrawlService"
    /\ gemini_service = "GeminiService"
    /\ agent_calls = <<>>
    /\ extract_calls = <<>>
    /\ compare_calls = <<>>
    /\ visited = <<>>
    /\ answers = <<>>
    /\ other = None

NextEndpoint ==
    \/ Respond
    \/ ExtractRulesEndpoint

SpecEndpoint == InitEndpoint /\ [][NextEndpoint]_vars

-----------------------------------------------------------------------------
(* Properties *)

Response == responses[1]

\* The prior rule set of the request
Prior == OrEmpty(request.existing_rules)

PriorCitations == {Prior[j].rule_text_citation : j \in DOMAIN Prior}

Ran(node) == \E i \in DOMAIN visited : visited[i].node = node

\* The node has run and its update recorded an error
RecordedError(node) ==
    \E i \in DOMAIN visited : visited[i].node = node /\ visited[i].error # None

\* compare_rule_sets was called by node compare and returned: N is
\* state.processed_rules, F is state.final_rules
Reconciled == Ran("compare") /\ ~RecordedError("compare") /\ Prior # <<>>

SameRule(a, b) ==
    /\ a.rule_name = b.rule_name
    /\ a.rule_description = b.rule_description
    /\ a.rule_text_citation = b.rule_text_citation

FailureResponse(r) ==
    /\ r.success = FALSE
    /\ r.rules = <<>>
    /\ r.total_rules_extracted = 0
    /\ Truthy(r.error)

\* C1: whenever the SCRAPE stage fails (the agent call raises, or the state
\* has no configuration), the response of the run has success = false, no
\* rules, a count of 0 and an error string, for every prior rule set.
C1_ScrapeFailureFailsRequest ==
    (/\ pc = "done"
     /\ RecordedError("scrape")
     /\ agent_calls = <<"raise">> \/ request.state \notin DOMAIN STATE_CONFIGS)
        => FailureResponse(Response)

\* C2: once a stage has recorded an error string in the state, the error
\* stays non-null in every later state of the run, and the response of a run
\* in which a stage recorded an error is a failure.
C2_ErrorPersists ==
    [][/\ Truthy(state.error) => Truthy(state'.error)
       /\ (pc' = "done" /\ \E i \in DOMAIN visited' : visited'[i].error # None)
              => FailureResponse(responses'[1])]_vars

\* C3: every response has one meaningful side: success = false implies no
\* rules, a count of 0 and an error; success = true implies no error.
C3_ResponseOneSided ==
    \A k \in DOMAIN responses :
        /\ ~responses[k].success => FailureResponse(responses[k])
        /\ responses[k].success => responses[k].error = None

C3_Witness ==
    /\ pc = "done"
    /\ Response.success
    /\ Len(Response.rules) = 2
    /\ Prior # <<>>

\* C4: the output F of compare_rule_sets has the length of N and F[i] has the
\* name, description and citation of N[i], with one of the three statuses;
\* so a rule of P that is not in N is not in F.
C4_OutputMirrorsCandidates ==
    Reconciled =>
        /\ Len(state.final_rules) = Len(state.processed_rules)
        /\ \A i \in DOMAIN state.final_rules :
              /\ SameRule(state.final_rules[i], state.processed_rules[i])
              /\ state.final_rules[i].status \in
                    {ChangeStatus_NEW, ChangeStatus_UPDATED, ChangeStatus_UNCHANGED}
        /\ \A i \in DOMAIN state.final_rules, j \in DOMAIN Prior :
              SameRule(state.final_rules[i], Prior[j]) =>
                 \E k \in DOMAIN state.processed_rules :
                    SameRule(state.processed_rules[k], Prior[j])

C4_Witness ==
    /\ Reconciled
    /\ Len(state.final_rules) = 2
    /\ state.final_rules[1].status = ChangeStatus_UPDATED
    /\ state.final_rules[2].status = ChangeStatus_NEW
    /\ \E j \in DOMAIN Prior : \A k \in DOMAIN state.processed_rules :
          ~SameRule(state.processed_rules[k], Prior[j])

\* C5: in a run whose prior rule set is empty or absent the classifier is
\* never called, and the rules of the response are the candidates of EXTRACT
\* in their order, each with status NEW and no reason.
C5_EmptyPriorAllNew ==
    Prior = <<>> =>
        /\ compare_calls = <<>>
        /\ pc = "done" =>
              /\ Len(Response.rules) = Len(state.processed_rules)
              /\ \A i \in DOMAIN Response.rules :
                    /\ SameRule(Response.rules[i], state.processed_rules[i])
                    /\ Response.rules[i].status = ChangeStatus_NEW
                    /\ Response.rules[i].change_reason = None

C5_Witness ==
    /\ pc = "done"
    /\ request.existing_rules.is_none
    /\ Len(Response.rules) = 2
    /\ Response.rules[1].rule_text_citation # Response.rules[2].rule_text_citation

\* C6: a candidate whose citation is the citation of no prior rule is emitted
\* with status NEW and no reason, whatever its name and description, and the
\* classifier is not called for it.
C6_UnmatchedIsNew ==
    Reconciled =>
        \A i \in DOMAIN state.processed_rules :
            state.processed_rules[i].rule_text_citation \notin PriorCitations =>
               /\ i \in DOMAIN state.final_rules
               /\ state.final_rules[i].status = ChangeStatus_NEW
               /\ state.final_rules[i].change_reason = None
               /\ \A k \in DOMAIN compare_calls : compare_calls[k].index # i

C6_Witness ==
    /\ Reconciled
    /\ \E i \in DOMAIN state.processed_rules, j \in DOMAIN Prior :
          /\ state.processed_rules[i].rule_text_citation \notin PriorCitations
          /\ state.processed_rules[i].rule_name = Prior[j].rule_name
          /\ state.processed_rules[i].rule_description = Prior[j].rule_description

\* C7: when the classifier reports a matched candidate equivalent, the
\* emitted rule has status UNCHANGED and no reason, also when the reply
\* carries a reason.
C7_EquivalentIsUnchanged ==
    Reconciled =>
        \A k \in DOMAIN compare_calls :
            (compare_calls[k].reply.kind = "parsed"
             /\ compare_calls[k].reply.are_equivalent) =>
               /\ compare_calls[k].index \in DOMAIN state.final_rules
               /\ state.final_rules[compare_calls[k].index].status
                     = ChangeStatus_UNCHANGED
               /\ state.final_rules[compare_calls[k].index].change_reason = None

C7_Witness ==
    /\ Reconciled
    /\ \E k \in DOMAIN compare_calls :
          /\ compare_calls[k].reply.kind = "parsed"
          /\ compare_calls[k].reply.are_equivalent
          /\ compare_calls[k].reply.change_reason = "X"

\* C8: when the classifier reports a matched candidate not equivalent with
\* reason X, the emitted rule has status UPDATED and reason X.
C8_NotEquivalentIsUpdated ==
    Reconciled =>
        \A k \in DOMAIN compare_calls :
            (/\ compare_calls[k].reply.kind = "parsed"
             /\ ~compare_calls[k].reply.are_equivalent
             /\ compare_calls[k].reply.change_reason # None) =>
               /\ compare_calls[k].index \in DOMAIN state.final_rules
               /\ state.final_rules[compare_calls[k].index].status
                     = ChangeStatus_UPDATED
               /\ state.final_rules[compare_calls[k].index].change_reason
                     = compare_calls[k].reply.change_reason

C8_Witness ==
    /\ Reconciled
    /\ \E k \in DOMAIN compare_calls :
          /\ compare_calls[k].reply.kind = "parsed"
          /\ ~compare_calls[k].reply.are_equivalent
          /\ compare_calls[k].reply.change_reason = "X"

\* C9: when the classifier call for a matched candidate fails (it raises, or
\* its reply is empty or does not parse), the candidate is emitted with
\* status UPDATED and a reason, node compare records no error, and every later
\* candidate is reconciled: F has the length of N and each later matched
\* candidate gets its own call.
C9_ClassifierFailureIsUpdated ==
    \A k \in DOMAIN compare_calls :
        compare_calls[k].reply.kind # "parsed" =>
           /\ Ran("compare") /\ ~RecordedError("compare")
           /\ Len(state.final_rules) = Len(state.processed_rules)
           /\ compare_calls[k].index \in DOMAIN state.final_rules
           /\ SameRule(state.final_rules[compare_calls[k].index],
                       state.processed_rules[compare_calls[k].index])
           /\ state.final_rules[compare_calls[k].index].status
                 = ChangeStatus_UPDATED
           /\ state.final_rules[compare_calls[k].index].change_reason # None
           /\ \A i \in DOMAIN state.processed_rules :
                 (i > compare_calls[k].index
                  /\ state.processed_rules[i].rule_text_citation \in PriorCitations)
                    => \E m \in DOMAIN compare_calls :
                          m > k /\ compare_calls[m].index = i

C9_Witness ==
    /\ Len(compare_calls) = 2
    /\ compare_calls[1].reply.kind = "empty"
    /\ compare_calls[2].reply.kind = "parsed"
    /\ compare_calls[2].reply.are_equivalent
    /\ state.final_rules[1].status = ChangeStatus_UPDATED
    /\ state.final_rules[2].status = ChangeStatus_UNCHANGED

\* The candidates of the raw rules whose extraction call returned a result,
\* in the order of the calls
RECURSIVE CandidatesOf(_)
CandidatesOf(calls) ==
    IF calls = <<>> THEN <<>>
    ELSE LET call == Head(calls) IN
         (IF call.reply.kind = "parsed"
          THEN [i \in 1..Len(call.reply.rules) |->
                   ProcessedRule(call.reply.rules[i].rule_name,
                                 call.reply.rules[i].rule_description,
                                 call.rule.rule_text_citation,
                                 ChangeStatus_NEW, None)]
          ELSE <<>>)
         \o CandidatesOf(Tail(calls))

\* C10: batch extraction makes one call for each raw rule, in order, and
\* returns the concatenation of the candidates of the raw rules whose call
\* succeeded; a failed call removes only its own candidates, and node
\* extract_rules records no error for it, also when every call fails.
C10_BatchExtraction ==
    extract_calls # <<>> =>
        /\ Len(extract_calls) = Len(state.scraped_rules)
        /\ \A i \in DOMAIN extract_calls :
              extract_calls[i].rule = state.scraped_rules[i]
        /\ state.processed_rules = CandidatesOf(extract_calls)
        /\ Ran("extract_rules") /\ ~RecordedError("extract_rules")

C10_Witness ==
    /\ Len(extract_calls) = 2
    /\ extract_calls[1].reply.kind = "parsed"
    /\ Len(extract_calls[1].reply.rules) = 1
    /\ extract_calls[2].reply.kind = "unparseable"
    /\ Len(state.processed_rules) = 1
    /\ pc = "done"

\* C11: after node extract_rules the run enters node compare exactly when the
\* prior rule set is non-empty and neither scrape nor extract_rules recorded
\* an error; otherwise it goes to node format and the classifier is never
\* called.  Stated for the runs in which the scraping service was built, so
\* that an error of scrape is an error of the scrape itself.
C11_CompareIffPriorAndNoError ==
    (Ran("extract_rules") /\ firecrawl_service # None) =>
        LET clean == /\ Prior # <<>>
                     /\ ~RecordedError("scrape")
                     /\ ~RecordedError("extract_rules")
        IN  /\ (pc = "compare" \/ Ran("compare")) <=> clean
            /\ ~clean => compare_calls = <<>>

\* C12: in every rule of every response a change_reason other than None
\* implies status UPDATED.
C12_ReasonOnlyWhenUpdated ==
    \A k \in DOMAIN responses : \A i \in DOMAIN responses[k].rules :
        responses[k].rules[i].change_reason # None =>
            responses[k].rules[i].status = ChangeStatus_UPDATED

C12_Witness ==
    /\ responses # <<>>
    /\ \E k \in DOMAIN compare_calls :
          /\ compare_calls[k].reply.kind = "parsed"
          /\ compare_calls[k].reply.are_equivalent
          /\ compare_calls[k].reply.change_reason = "X"
          /\ compare_calls[k].existing_rule.change_reason = "X"
          /\ Response.rules[compare_calls[k].index].status = ChangeStatus_UNCHANGED
    /\ \E i \in DOMAIN Response.rules :
          Response.rules[i].status = ChangeStatus_NEW

\* C13: in every rule of every response status UPDATED implies a
\* change_reason other than None, whatever the classifier replied.
C13_UpdatedCarriesReason ==
    \A k \in DOMAIN responses : \A i \in DOMAIN responses[k].rules :
        responses[k].rules[i].status = ChangeStatus_UPDATED =>
            responses[k].rules[i].change_reason # None

\* C14: when the reply to an extraction call of stage EXTRACT is empty or
\* does not parse, node extract_rules records an error in the state (the raw
\* rule is not skipped without a trace).
C14_LLMFailureFailsStage ==
    \A i \in DOMAIN extract_calls :
        extract_calls[i].reply.kind \in {"empty", "unparseable"} =>
            RecordedError("extract_rules")

\* C14 as amended: when the reply to an extraction call is empty or does not
\* parse, that raw rule yields no candidate, every raw rule still gets its
\* call, node extract_rules records no error, and the edge taken after it
\* depends on the prior rule set alone.
C14_LLMFailureSkipsItem ==
    \A i \in DOMAIN extract_calls :
        extract_calls[i].reply.kind \in {"empty", "unparseable"} =>
            /\ Ran("extract_rules") /\ ~RecordedError("extract_rules")
            /\ Len(extract_calls) = Len(state.scraped_rules)
            /\ Len(state.processed_rules) =
                  SumLen([j \in DOMAIN extract_calls |->
                             IF extract_calls[j].reply.kind = "parsed"
                             THEN extract_calls[j].reply.rules ELSE <<>>])
            /\ (~Ran("compare") /\ ~Ran("format")) =>
                  pc = IF Prior # <<>> THEN "compare" ELSE "format"

C14_Witness ==
    /\ Len(extract_calls) = 2
    /\ extract_calls[1].reply.kind = "empty"
    /\ extract_calls[2].reply.kind = "parsed"
    /\ Len(extract_calls[2].reply.rules) = 1
    /\ Len(state.processed_rules) = 1
    /\ state.processed_rules[1].rule_text_citation
          = extract_calls[2].rule.rule_text_citation
    /\ pc = "compare"

\* C15: in a run for a state without an entry in STATE_CONFIGS the scrape
\* fails with the configuration error before the agent is called, and no call
\* is made to the Firecrawl agent or to Gemini (extraction or comparison).
C15_UnconfiguredStateNoCalls ==
    request.state \notin DOMAIN STATE_CONFIGS =>
        /\ agent_calls = <<>>
        /\ extract_calls = <<>>
        /\ compare_calls = <<>>
        /\ Ran("scrape") => RecordedError("scrape")
        /\ (Ran("scrape") /\ firecrawl_service # None) =>
              visited[1].error = "Scraping failed: State is not configured"

C15_Witness ==
    /\ pc = "done"
    /\ request.state \notin DOMAIN STATE_CONFIGS
    /\ firecrawl_service # None
    /\ Ran("compare")

\* C16: the prior rule set is read-only: in every state of a run the
\* existing_rules of the pipeline state are the rules of the request, element
\* for element, and no step changes the request.
C16_PriorReadOnly ==
    /\ Len(state.existing_rules) = Len(Prior)
    /\ \A j \in DOMAIN Prior : state.existing_rules[j] = Prior[j]
    /\ request \in Requests

C16_Witness ==
    /\ pc = "done"
    /\ Len(Prior) = 2
    /\ Prior[1] # Prior[2]
    /\ Len(compare_calls) = 2
    /\ Response.rules[1].status = ChangeStatus_UNCHANGED
    /\ Response.rules[2].status = ChangeStatus_UPDATED

\* C17: whenever run_extraction_workflow returns a response with success =
\* false the endpoint answers 500 with the response's error as detail, and a
\* 200 answer is only given for a response with success = true (which it
\* carries as its body).
C17_FailureIsHttp500 ==
    \A k \in DOMAIN answers :
        /\ ~responses[k].success =>
              /\ answers[k].status_code = 500
              /\ answers[k].detail = responses[k].error
        /\ answers[k].status_code = 200 =>
              /\ responses[k].success
              /\ answers[k].body = <<responses[k]>>

C17_Witness ==
    /\ pc = "answered"
    /\ ~Response.success
    /\ Response.error \in NodeErrors
    /\ answers[1].status_code = 500
    /\ state.final_rules # <<>>

\* The nodes run so far, in order
Nodes == [i \in DOMAIN visited |-> visited[i].node]

IsPrefix(a, b) == Len(a) <= Len(b) /\ \A i \in DOMAIN a : a[i] = b[i]

StageOrders ==
    {<<"scrape", "extract_rules", "compare", "format">>,
     <<"scrape", "extract_rules", "format">>}

\* C18: every run visits scrape, extract_rules, optionally compare, format in
\* this order, each at most once and one after the other; format runs exactly
\* once in every run, with or without an error, and is the last node before
\* the run ends.
C18_StageOrder ==
    /\ \E full \in StageOrders :
          /\ IsPrefix(Nodes, full)
          /\ pc = IF Len(Nodes) < Len(full) THEN full[Len(Nodes) + 1] ELSE pc
    /\ pc \in {"END", "done", "answered"} <=>
          (Nodes # <<>> /\ Nodes[Len(Nodes)] = "format")
    /\ responses # <<>> =>
          Cardinality({i \in DOMAIN Nodes : Nodes[i] = "format"}) = 1

C18_Witness ==
    /\ pc = "done"
    /\ Nodes = <<"scrape", "extract_rules", "compare", "format">>
    /\ RecordedError("compare")
    /\ agent_calls = <<"data">>

\* C19: when several prior rules have the same citation, every candidate with
\* that citation is classified against the one that comes last in the prior
\* set, and against no other.
C19_LastPriorWins ==
    \A k \in DOMAIN compare_calls :
        LET same == {j \in DOMAIN Prior :
                        Prior[j].rule_text_citation
                           = compare_calls[k].new_rule.rule_text_citation}
        IN  /\ same # {}
            /\ \E j \in same :
                  /\ \A m \in same : m <= j
                  /\ compare_calls[k].existing_rule = Prior[j]

C19_Witness ==
    /\ Len(Prior) = 2
    /\ Prior[1] # Prior[2]
    /\ Prior[1].rule_text_citation = Prior[2].rule_text_citation
    /\ Len(compare_calls) = 2
    /\ compare_calls[1].existing_rule = Prior[2]
    /\ compare_calls[2].existing_rule = Prior[2]
    /\ SameRule(compare_calls[1].new_rule, Prior[1])

\* C20: during reconciliation the classifier is called exactly once for each
\* candidate whose citation is a key of the prior map and never for another
\* candidate, and the calls are made in the order of the candidates.
C20_OneCallPerMatchInOrder ==
    /\ ~Ran("compare") => compare_calls = <<>>
    /\ Reconciled =>
          /\ \A i \in DOMAIN state.processed_rules :
                Cardinality({k \in DOMAIN compare_calls :
                                compare_calls[k].index = i})
                  = IF state.processed_rules[i].rule_text_citation
                          \in PriorCitations THEN 1 ELSE 0
          /\ \A k \in DOMAIN compare_calls :
                /\ compare_calls[k].index \in DOMAIN state.processed_rules
                /\ compare_calls[k].new_rule
                      = state.processed_rules[compare_calls[k].index]
          /\ \A k1, k2 \in DOMAIN compare_calls :
                k1 < k2 => compare_calls[k1].index < compare_calls[k2].index

C20_Witness ==
    /\ Reconciled
    /\ Len(compare_calls) = 2
    /\ compare_calls[1].new_rule # compare_calls[2].new_rule
    /\ compare_calls[1].reply # compare_calls[2].reply

\* The number of recorded calls made for position i
CallsFor(calls, i) == Cardinality({k \in DOMAIN calls : calls[k].index = i})

\* C21: no collaborator call is retried: in one run the Firecrawl agent is
\* called at most once, Gemini extraction at most once for each raw rule and
\* the classifier at most once for each candidate, also when a call fails.
C21_NoRetries ==
    /\ Len(agent_calls) <= 1
    /\ Len(extract_calls) <= Len(state.scraped_rules)
    /\ \A k \in DOMAIN extract_calls :
          CallsFor(extract_calls, extract_calls[k].index) = 1
    /\ Len(compare_calls) <= Len(state.processed_rules)
    /\ \A k \in DOMAIN compare_calls :
          CallsFor(compare_calls, compare_calls[k].index) = 1

C21_Witness ==
    /\ pc = "done"
    /\ Len(extract_calls) = 2
    /\ extract_calls[1].reply.kind = "raise"
    /\ extract_calls[2].reply.kind = "parsed"
    /\ Len(compare_calls) = 2
    /\ compare_calls[1].reply.kind = "raise"
    /\ compare_calls[2].reply.kind = "raise"

\* C22: every candidate rule of EXTRACT has status NEW, no reason and the
\* citation of the raw rule it was extracted from, so the citation of every
\* processed rule is the citation of a scraped raw rule.
C22_CandidatesAreNewAndCited ==
    /\ \A i \in DOMAIN state.processed_rules :
          /\ state.processed_rules[i].status = ChangeStatus_NEW
          /\ state.processed_rules[i].change_reason = None
          /\ \E j \in DOMAIN state.scraped_rules :
                state.processed_rules[i].rule_text_citation
                   = state.scraped_rules[j].rule_text_citation
    /\ Ran("extract_rules") =>
          Len(state.processed_rules) =
             SumLen([k \in DOMAIN extract_calls |-> extract_calls[k].reply.rules])
    /\ \A k \in DOMAIN extract_calls :
          Len(extract_calls[k].reply.rules) > 0 =>
             \E i \in DOMAIN state.processed_rules :
                state.processed_rules[i].rule_text_citation
                   = extract_calls[k].rule.rule_text_citation

C22_Witness ==
    /\ Ran("extract_rules")
    /\ Len(state.scraped_rules) = 2
    /\ Len(state.processed_rules) = 2
    /\ state.processed_rules[1].rule_text_citation = "c2"
    /\ state.processed_rules[2].rule_text_citation = "c1"

\* C25: in every response total_rules_extracted is the length of the
\* response's rules.
C25_CountIsLength ==
    \A k \in DOMAIN responses :
        responses[k].total_rules_extracted = Len(responses[k].rules)

C25_Witness ==
    /\ pc = "done"
    /\ Len(Response.rules) = 2
    /\ Len(state.scraped_rules) = 1
    /\ Response.total_rules_extracted = 2

\* C27: in the output of compare_rule_sets a rule has status NEW exactly when
\* no prior rule has its citation; a rule whose citation a prior rule has is
\* UPDATED or UNCHANGED, whatever the classifier replies.
C27_NewIffUnmatched ==
    Reconciled =>
        \A i \in DOMAIN state.final_rules :
            /\ state.final_rules[i].status = ChangeStatus_NEW
                  <=> state.final_rules[i].rule_text_citation \notin PriorCitations
            /\ state.final_rules[i].rule_text_citation \in PriorCitations
                  => state.final_rules[i].status
                        \in {ChangeStatus_UPDATED, ChangeStatus_UNCHANGED}

C27_Witness ==
    /\ Reconciled
    /\ Len(state.final_rules) = 2
    /\ state.final_rules[1].status = ChangeStatus_NEW
    /\ state.final_rules[2].status = ChangeStatus_UPDATED
    /\ Len(compare_calls) = 1
    /\ compare_calls[1].reply.kind = "unparseable"

\* C28: when node compare ran and produced a non-empty final_rules, node
\* format leaves final_rules, processed_rules, scraped_rules and source_url
\* as they are, and the rules of the response are that final_rules.
C28_FormatKeepsComparison ==
    [][(Ran("compare") /\ state.final_rules # <<>>) =>
          /\ pc = "format" =>
                /\ state'.final_rules = state.final_rules
                /\ state'.processed_rules = state.processed_rules
                /\ state'.scraped_rules = state.scraped_rules
                /\ state'.source_url = state.source_url
          /\ pc = "END" =>
                /\ Len(responses') = 1
                /\ responses'[1].rules = state.final_rules]_vars

C28_Witness ==
    /\ pc = "done"
    /\ Ran("compare") /\ Ran("format")
    /\ Len(Response.rules) = 2
    /\ Response.rules = state.final_rules
    /\ Response.rules[1].status = ChangeStatus_UPDATED
    /\ Response.rules[1].change_reason = None
    /\ Response.rules[2].status = ChangeStatus_UNCHANGED

\* The classifier replied to every call, and reported equivalent exactly
\* when the two rules have the same name and description
FaithfulClassifier ==
    \A k \in DOMAIN compare_calls :
        /\ compare_calls[k].reply.kind = "parsed"
        /\ compare_calls[k].reply.are_equivalent <=>
              /\ compare_calls[k].existing_rule.rule_name
                    = compare_calls[k].new_rule.rule_name
              /\ compare_calls[k].existing_rule.rule_description
                    = compare_calls[k].new_rule.rule_description

\* C26: reconciling the candidates N of an extraction against N itself, with
\* a classifier that reports equivalent exactly when name and description are
\* equal, emits every rule with status UNCHANGED, also when several
\* candidates share a citation.
C26_SelfReconcileStable ==
    (Reconciled /\ Prior = state.processed_rules /\ FaithfulClassifier) =>
        \A i \in DOMAIN state.final_rules :
            state.final_rules[i].status = ChangeStatus_UNCHANGED

\* C23: every run in which each collaborator call returns or raises comes to
\* build its response, and builds exactly one, whatever fails on the way.
C23_EveryRunResponds ==
    /\ <>(pc = "done" /\ Len(responses) = 1)
    /\ [](Len(responses) <= 1)

C23_Witness ==
    /\ pc = "done"
    /\ Len(responses) = 1
    /\ RecordedError("scrape")
    /\ RecordedError("compare")

\* What a request holds is its own: its state carries its own inputs, its
\* raw rules, candidates and final rules come from the replies to its own
\* calls and from its own prior rules, and its response and answer are built
\* from its own state.
OwnData(R) ==
    LET prior == OrEmpty(R.request.existing_rules)
        citations == {prior[j].rule_text_citation : j \in DOMAIN prior}
        st == R.state
        compared == \E i \in DOMAIN R.visited :
                       R.visited[i].node = "compare" /\ R.visited[i].error = None
    IN
    /\ st.state = R.request.state
    /\ st.product_type = R.request.product_type
    /\ st.existing_rules = prior
    /\ Len(R.agent_calls) <= 1
    /\ st.scraped_rules # <<>> => R.agent_calls = <<"data">>
    /\ \A k \in DOMAIN R.extract_calls :
          /\ R.extract_calls[k].index \in DOMAIN st.scraped_rules
          /\ R.extract_calls[k].rule = st.scraped_rules[R.extract_calls[k].index]
    /\ st.processed_rules = CandidatesOf(R.extract_calls)
    /\ \A k \in DOMAIN R.compare_calls :
          /\ R.compare_calls[k].index \in DOMAIN st.processed_rules
          /\ R.compare_calls[k].new_rule
                = st.processed_rules[R.compare_calls[k].index]
          /\ \E j \in DOMAIN prior : R.compare_calls[k].existing_rule = prior[j]
    /\ (compared /\ prior # <<>>) =>
          /\ Len(st.final_rules) = Len(st.processed_rules)
          /\ \A i \in DOMAIN st.final_rules :
                /\ SameRule(st.final_rules[i], st.processed_rules[i])
                /\ IF st.processed_rules[i].rule_text_citation \in citations
                   THEN \E k \in DOMAIN R.compare_calls :
                          /\ R.compare_calls[k].index = i
                          /\ st.final_rules[i].status =
                                IF /\ R.compare_calls[k].reply.kind = "parsed"
                                   /\ R.compare_calls[k].reply.are_equivalent
                                THEN ChangeStatus_UNCHANGED
                                ELSE ChangeStatus_UPDATED
                   ELSE st.final_rules[i].status = ChangeStatus_NEW
    /\ Len(R.responses) <= 1
    /\ \A k \in DOMAIN R.responses :
          /\ R.responses[k].state = R.request.state
          /\ R.responses[k].product_type = R.request.product_type
          /\ R.responses[k].source_url = st.source_url
          /\ R.responses[k].rules =
                IF st.final_rules = <<>> THEN st.processed_rules
                ELSE st.final_rules
    /\ \A k \in DOMAIN R.answers : R.answers[k].body = <<R.responses[k]>>

\* C24: two requests whose nodes interleave in any order are independent:
\* each has its own pipeline state, the response of each is built from its
\* own inputs and the replies to its own calls, and the two shared handles
\* hold nothing of a request.
C24_RequestsIndependent ==
    /\ OwnData(Running)
    /\ OwnData(other)
    /\ firecrawl_service \in {None, "FirecrawlService"}
    /\ gemini_service \in {None, "GeminiService"}

C24_Witness ==
    /\ pc = "format"
    /\ other.pc = "format"
    /\ Prior # <<>>
    /\ other.state.existing_rules # <<>>
    /\ Prior # other.state.existing_rules
    /\ Len(compare_calls) = 2
    /\ Len(other.compare_calls) = 1
    /\ compare_calls[1].existing_rule # other.compare_calls[1].existing_rule
    /\ state.final_rules[1].status = ChangeStatus_UNCHANGED
    /\ other.state.final_rules[1].status = ChangeStatus_UPDATED

=============================================================================
